---------------------------- MODULE Spec2Model ----------------------------
(***************************************************************************)
(* Model of the manual compaction HTTP action of the storage engine        *)
(* (be/src/http/action/compaction_action.cpp): the trigger handler         *)
(* _handle_run_compaction, the background callback                         *)
(* _execute_compaction_callback and the run-status handler                 *)
(* _handle_run_status_compaction, running as concurrent threads over the   *)
(* per-tablet compaction locks, the full-compaction flag, the bound        *)
(* cumulative policy and the failure counters.                             *)
(*                                                                         *)
(* The Compaction classes (prepare_compact / execute_compact), the Tablet  *)
(* and StorageEngine::submit_compaction_task are not part of the source    *)
(* files at hand; they are modelled from the specification's sections 3,   *)
(* 4.2, 4.3 and 5 and are marked as such where they are defined.           *)
(***************************************************************************)
EXTENDS Integers, Sequences, FiniteSets, TLC

\* ------------------------------------------------------------------ bounds
\* Number of trigger requests (HTTP handler threads of RUN_COMPACTION).
MaxTriggers == 2
\* Number of run-status requests (HTTP handler threads of RUN_COMPACTION_STATUS).
MaxQueries == 2

Triggers == 1..MaxTriggers
Queries == 1..MaxQueries
\* The first trigger, the first query: the specifications below run either
\* all the triggers with one query or all the queries with one trigger.
OneTrigger == {t \in Triggers : t = 1}
OneQuery == {q \in Queries : q = 1}

\* ---------------------------------------------------------------- fixture
\* The tablet registry: tablet i belongs to table TabletTable[i].
TabletTable == <<1, 1, 2>>
Tablets == DOMAIN TabletTable

\* Every tablet starts with four rowsets of one version each; the versions
\* below the cumulative layer point are the base level, the others the
\* cumulative level.
InitChain ==
    <<[start |-> 0, end |-> 0], [start |-> 1, end |-> 1],
      [start |-> 2, end |-> 2], [start |-> 3, end |-> 3]>>
cumulative_layer_point == [tb \in Tablets |-> InitChain[3].start]

\* Request parameter strings: "" is an absent parameter, "abc" makes
\* std::stoull throw, "1x" is parsed up to its first non-digit.  The ids
\* name tablet 1 and table 1 (tablets 1 and 2); "9" is an id of nothing.
\* Tablets are independent of each other, so single-tablet triggers and
\* status queries are enumerated on tablet 1 only.
IdStrings == {"", "abc", "0", "1", "9", "1x"}
TypeStrings == {"base", "cumulative", "full", "merge"}
RemoteStrings == {"", "true", "false", "yes"}

\* ------------------------------------------------------------- variables
VARIABLES
    base_lock,        \* [Tablets -> owner] Tablet::get_base_compaction_lock()
    cumulative_lock,  \* [Tablets -> owner] Tablet::get_cumulative_compaction_lock()
    full_running,     \* [Tablets -> BOOLEAN] Tablet::is_full_compaction_running()
    policy,           \* [Tablets -> 0 | trigger whose callback created the bound policy object]
    base_failed,      \* DorisMetrics base_compaction_request_failed
    cumu_failed,      \* DorisMetrics cumulative_compaction_request_failed
    req,              \* [Triggers -> record] one _handle_run_compaction invocation
    task,             \* [Triggers -> [Tablets -> record]] the compaction task started by a trigger on a tablet
    query,            \* [Queries -> record] one status handler invocation
    qhist,            \* [Queries -> record] history of the tablet's tasks during a query's flight
    http,             \* [Triggers -> record] the HttpRequest parameters a recorded trigger was called with
    version_chain     \* [Tablets -> Seq(rowset)] the tablet's rowsets in version order

vars == <<base_lock, cumulative_lock, full_running, policy, base_failed, cumu_failed,
          req, task, query, qhist, http, version_chain>>

Free == <<"free", 0>>
TaskOwner(r) == <<"task", r>>
ProbeOwner(q) == <<"probe", q>>

\* ------------------------------------------------------- pure operators

\* std::stoull on a parameter string: "ok" with the parsed value, or a throw.
Stoull(s) ==
    CASE s = "0" -> [ok |-> TRUE, val |-> 0]
      [] s = "1" -> [ok |-> TRUE, val |-> 1]
      [] s = "9" -> [ok |-> TRUE, val |-> 9]
      [] s = "1x" -> [ok |-> TRUE, val |-> 1]
      [] OTHER -> [ok |-> FALSE, val |-> 0]

\* Mutant of check_param: a request with both ids is served by tablet id.
check_param_both_accepted(req_tablet_id, req_table_id) ==
    IF req_tablet_id = ""
    THEN IF req_table_id = ""
         THEN [status |-> "InternalError", tablet_id |-> 0, table_id |-> 0]
         ELSE IF Stoull(req_table_id).ok
              THEN [status |-> "OK", tablet_id |-> 0, table_id |-> Stoull(req_table_id).val]
              ELSE [status |-> "InternalError", tablet_id |-> 0, table_id |-> 0]
    ELSE IF Stoull(req_tablet_id).ok
         THEN [status |-> "OK", tablet_id |-> Stoull(req_tablet_id).val, table_id |-> 0]
         ELSE [status |-> "InternalError", tablet_id |-> 0, table_id |-> 0]

\* _check_param(req, &tablet_id, &table_id): the ids keep their initial 0
\* unless parsed.
check_param(req_tablet_id, req_table_id) ==
    IF req_tablet_id = ""
    THEN IF req_table_id = ""
         THEN [status |-> "InternalError", tablet_id |-> 0, table_id |-> 0]
         ELSE IF Stoull(req_table_id).ok
              THEN [status |-> "OK", tablet_id |-> 0, table_id |-> Stoull(req_table_id).val]
              ELSE [status |-> "InternalError", tablet_id |-> 0, table_id |-> 0]
    ELSE IF req_table_id = ""
         THEN IF Stoull(req_tablet_id).ok
              THEN [status |-> "OK", tablet_id |-> Stoull(req_tablet_id).val, table_id |-> 0]
              ELSE [status |-> "InternalError", tablet_id |-> 0, table_id |-> 0]
         ELSE [status |-> "InternalError", tablet_id |-> 0, table_id |-> 0]

\* _check_param(req, &id, name): an absent parameter leaves the id 0.
check_param_id(req_id_param) ==
    IF req_id_param # ""
    THEN IF Stoull(req_id_param).ok
         THEN [status |-> "OK", id |-> Stoull(req_id_param).val]
         ELSE [status |-> "InternalError", id |-> 0]
    ELSE [status |-> "OK", id |-> 0]

\* Mutant of get_all_tablet: the filter lets every tablet through.
get_all_tablet_unfiltered(table_id) ==
    SelectSeq([i \in 1..Len(TabletTable) |-> i], LAMBDA tb : table_id = table_id)

\* TabletManager::get_all_tablet with the table-id filter of the trigger,
\* in ascending tablet order.
get_all_tablet(table_id) ==
    SelectSeq([i \in 1..Len(TabletTable) |-> i], LAMBDA tb : TabletTable[tb] = table_id)

\* Mutant of RunCompactionEntry: the peer-fetch eligibility is checked for
\* the cumulative kind only, the one that fetches.
RunCompactionEntry_remote_cumulative_only(req_tablet_id, req_table_id, compaction_type, param_remote, should_fetch_from_peer) ==
    LET cp == check_param(req_tablet_id, req_table_id)
        fetch_from_remote == (param_remote = "true")
        rejected(st) == [status |-> st, path |-> "none", tablet_id |-> 0, table_id |-> 0,
                         type |-> "", remote |-> FALSE]
    IN  IF cp.status # "OK" THEN rejected(cp.status)
        ELSE IF compaction_type \notin {"base", "cumulative", "full"} THEN rejected("NotSupported")
        ELSE IF param_remote # "true" /\ param_remote # "" /\ param_remote # "false"
             THEN rejected("NotSupported")
        ELSE IF cp.tablet_id = 0 /\ cp.table_id # 0
             THEN [status |-> "OK", path |-> "table", tablet_id |-> 0, table_id |-> cp.table_id,
                   type |-> "", remote |-> FALSE]
        ELSE IF cp.tablet_id \notin Tablets THEN rejected("NotFound")
        ELSE IF compaction_type = "cumulative" /\ fetch_from_remote /\ ~should_fetch_from_peer
             THEN rejected("NotSupported")
        ELSE [status |-> "OK", path |-> "single", tablet_id |-> cp.tablet_id,
              table_id |-> cp.table_id, type |-> compaction_type, remote |-> fetch_from_remote]

\* Mutant of RunCompactionEntry: the compaction type is not checked before
\* the task is started.
RunCompactionEntry_kind_unchecked(req_tablet_id, req_table_id, compaction_type, param_remote, should_fetch_from_peer) ==
    LET cp == check_param(req_tablet_id, req_table_id)
        fetch_from_remote == (param_remote = "true")
        rejected(st) == [status |-> st, path |-> "none", tablet_id |-> 0, table_id |-> 0,
                         type |-> "", remote |-> FALSE]
    IN  IF cp.status # "OK" THEN rejected(cp.status)
        ELSE IF param_remote # "true" /\ param_remote # "" /\ param_remote # "false"
             THEN rejected("NotSupported")
        ELSE IF cp.tablet_id = 0 /\ cp.table_id # 0
             THEN [status |-> "OK", path |-> "table", tablet_id |-> 0, table_id |-> cp.table_id,
                   type |-> "", remote |-> FALSE]
        ELSE IF cp.tablet_id \notin Tablets THEN rejected("NotFound")
        ELSE IF fetch_from_remote /\ ~should_fetch_from_peer
             THEN rejected("NotSupported")
        ELSE [status |-> "OK", path |-> "single", tablet_id |-> cp.tablet_id,
              table_id |-> cp.table_id, type |-> compaction_type, remote |-> fetch_from_remote]

\* What _handle_run_compaction decides before it starts anything: the
\* status of a rejection, or the path it takes ("table" fan-out, "single"
\* tablet) with the parsed ids and, on the single-tablet path, the type and
\* the remote flag the callback is started with (the fan-out reads neither).
\* should_fetch_from_peer is what tablet->should_fetch_from_peer() answers
\* for the tablet looked up.
RunCompactionEntry(req_tablet_id, req_table_id, compaction_type, param_remote, should_fetch_from_peer) ==
    LET cp == check_param(req_tablet_id, req_table_id)
        fetch_from_remote == (param_remote = "true")
        rejected(st) == [status |-> st, path |-> "none", tablet_id |-> 0, table_id |-> 0,
                         type |-> "", remote |-> FALSE]
    IN  IF cp.status # "OK" THEN rejected(cp.status)
        ELSE IF compaction_type \notin {"base", "cumulative", "full"} THEN rejected("NotSupported")
        ELSE IF param_remote # "true" /\ param_remote # "" /\ param_remote # "false"
             THEN rejected("NotSupported")
        ELSE IF cp.tablet_id = 0 /\ cp.table_id # 0
             THEN [status |-> "OK", path |-> "table", tablet_id |-> 0, table_id |-> cp.table_id,
                   type |-> "", remote |-> FALSE]
        ELSE IF cp.tablet_id \notin Tablets THEN rejected("NotFound")
        ELSE IF fetch_from_remote /\ ~should_fetch_from_peer
             THEN rejected("NotSupported")
        ELSE [status |-> "OK", path |-> "single", tablet_id |-> cp.tablet_id,
              table_id |-> cp.table_id, type |-> compaction_type, remote |-> fetch_from_remote]


\* The outcomes of the entry over all the requests enumerated.
Entries ==
    {RunCompactionEntry(a, b, c, d, p) :
        a \in IdStrings, b \in IdStrings, c \in TypeStrings, d \in RemoteStrings,
        p \in BOOLEAN}
\* The same without the requests that take the table fan-out path.
SingleEntries == {e \in Entries : e.path # "table"}

\* Mutant of CompactionVariant: the remote flag is looked at before the
\* type, so any remote request fetches from the peer.
CompactionVariant_remote_first(compaction_type, fetch_from_remote) ==
    IF fetch_from_remote /\ compaction_type \in {"base", "cumulative", "full"}
    THEN "single_replica"
    ELSE IF compaction_type = "base" THEN "base"
    ELSE IF compaction_type = "cumulative" THEN "cumulative"
    ELSE IF compaction_type = "full" THEN "full"
    ELSE "none"

\* Which Compaction object _execute_compaction_callback constructs for a
\* compaction_type string and the fetch_from_remote flag.
CompactionVariant(compaction_type, fetch_from_remote) ==
    IF compaction_type = "base" THEN "base"
    ELSE IF compaction_type = "cumulative"
         THEN IF fetch_from_remote THEN "single_replica" ELSE "cumulative"
    ELSE IF compaction_type = "full" THEN "full"
    ELSE "none"

\* Mutant of do_compact_next: a failed try-lock is not treated as an error.
do_compact_next_conflict_ignored(prepare_status) ==
    IF prepare_status = "NoSuitableVersion" THEN "finish" ELSE "execute"

\* Mutant of do_compact_next: the RETURN_IF_ERROR around prepare_compact is
\* missing, execute_compact runs whatever prepare returned.
do_compact_next_unchecked(prepare_status) ==
    IF prepare_status = "" THEN "finish" ELSE "execute"

\* do_compact: execute_compact is called only when prepare_compact returned
\* OK (RETURN_IF_ERROR); the value is the pc the task thread moves to.
do_compact_next(prepare_status) ==
    IF prepare_status # "OK" THEN "finish" ELSE "execute"

\* do_compact's return value from the two phases' statuses ("-" : not called).
do_compact_result(prepare_status, execute_status) ==
    IF prepare_status # "OK" THEN prepare_status ELSE execute_status

\* Mutant of failed_counter: the benign code is not told from the others.
failed_counter_benign_counted(variant, res) ==
    IF variant = "base"
    THEN IF res # "OK" THEN "base" ELSE "none"
    ELSE IF variant = "cumulative"
         THEN IF res # "OK" THEN "cumulative" ELSE "none"
    ELSE "none"

\* The counter the callback increments after do_compact returned res:
\* "base", "cumulative" or "none".
failed_counter(variant, res) ==
    IF variant = "base"
    THEN IF res # "OK" /\ res # "NoSuitableVersion" THEN "base" ELSE "none"
    ELSE IF variant = "cumulative"
         THEN IF res # "OK" /\ res # "NoSuitableVersion" THEN "cumulative" ELSE "none"
    ELSE "none"

\* Mutant of wait_for_result: the ready future's status is not looked at.
wait_for_result_dropped(fstatus, olap_status) ==
    IF fstatus = "ready" /\ olap_status = "" THEN olap_status ELSE "OK"

\* Mutant of wait_for_result: a timeout is answered as an error.
wait_for_result_timeout_error(fstatus, olap_status) ==
    IF fstatus = "ready"
    THEN IF olap_status # "OK" THEN olap_status ELSE "OK"
    ELSE "InternalError"

\* Step 4 of _handle_run_compaction: what the trigger returns after
\* future_obj.wait_for(2s) ended with future_status fstatus; olap_status is
\* future_obj.get() and is read only when the future is ready.
wait_for_result(fstatus, olap_status) ==
    IF fstatus = "ready"
    THEN IF olap_status # "OK" THEN olap_status ELSE "OK"
    ELSE "OK"

\* Mutant of fanout_continues: the submission's status is dropped.
fanout_continues_regardless(st) == st = st

\* The fan-out loop's RETURN_IF_ERROR: whether the loop goes on after a
\* submission that returned st.
fanout_continues(st) == st = "OK"

\* _handle_run_status_compaction, first block: the answer when
\* is_full_compaction_running() is true, else go on to the lock probes.
status_after_flag(is_full) ==
    IF is_full
    THEN [pc |-> "done", run_status |-> TRUE, compact_type |-> "full"]
    ELSE [pc |-> "try", run_status |-> FALSE, compact_type |-> ""]

\* Mutant of ProbeOrder: the base lock is probed before the cumulative lock.
ProbeOrder_base_first == <<"base", "cumulative">>

\* The order of the two try-lock blocks of _handle_run_status_compaction and
\* the compact_type each reports when its try-lock fails.
ProbeOrder == <<"cumulative", "base">>

\* ---------------------------------------------- specification-modelled

\* Section 4.2's table: the level locks a variant holds.
NeedsBase(variant) == variant \in {"base", "full"}
NeedsCumu(variant) == variant \in {"cumulative", "single_replica", "full"}

\* prepare(): LockConflict when a needed level lock cannot be try-acquired,
\* NoSuitableVersion when no candidate qualifies, else OK.
prepare_status(conflict, suitable) ==
    IF conflict THEN "LockConflict"
    ELSE IF ~suitable THEN "NoSuitableVersion"
    ELSE "OK"

\* execute(): success, or MergeFailed.
execute_status(merged) == IF merged THEN "OK" ELSE "MergeFailed"

\* Mutant of clears_full_running: the flag is cleared only by a task whose
\* prepare succeeded.
clears_full_running_after_prepare_ok(variant, pres) ==
    variant = "full" /\ pres = "OK"

\* Section 3: "full compaction's flag is set/cleared around the entire task
\* regardless of whether base/cumulative locks are also taken": a Full task
\* clears the flag when it ends, whatever prepare returned.
clears_full_running(variant, pres) == variant = "full"

\* A task gives back a level lock it owns (sections 4.2 and 5: held for the
\* duration of the task, released on every exit path); a lock it does not
\* own is left alone.
Release(lock, tb, owner) == IF lock[tb] = owner THEN [lock EXCEPT ![tb] = Free] ELSE lock

\* The last version of a chain.
max_version(chain) == chain[Len(chain)].end

\* The rowsets of a chain a variant may merge: Base the base level,
\* Cumulative and SingleReplicaFetch the cumulative level, Full both.
InScope(variant, rs, point) ==
    IF variant = "base" THEN rs.end < point
    ELSE IF variant \in {"cumulative", "single_replica"} THEN rs.start >= point
    ELSE TRUE

\* The candidates of prepare(): the version range <<first, last>> of the
\* rowsets in scope when they are at least two (a contiguous run), else <<>>.
Candidates(variant, chain, point) ==
    LET run == SelectSeq(chain, LAMBDA rs : InScope(variant, rs, point))
    IN  IF Len(run) >= 2 THEN <<run[1].start, run[Len(run)].end>> ELSE <<>>

\* Mutant of Publish: the merged rowsets are removed and the merged result
\* is not inserted in the same step.
Publish_remove_only(chain, cand) ==
    SelectSeq(chain, LAMBDA rs : rs.end < cand[1]) \o
    SelectSeq(chain, LAMBDA rs : rs.start > cand[2])

\* The publish step of a successful execute(): the rowsets of the candidate
\* range are replaced by the one merged rowset, in one step.
Publish(chain, cand) ==
    SelectSeq(chain, LAMBDA rs : rs.end < cand[1]) \o
    <<[start |-> cand[1], end |-> cand[2]]>> \o
    SelectSeq(chain, LAMBDA rs : rs.start > cand[2])

\* ------------------------------------------------------------ the state

\* pres, eres: what prepare_compact and execute_compact returned ("-": not
\* called); res: the callback's res once do_compact has returned; cand: the
\* version range prepare selected.
NoTask == [pc |-> "none", pres |-> "-", eres |-> "-", res |-> "-", cand |-> <<>>]
IdleReq == [pc |-> "idle", path |-> "none", tablet_id |-> 0, table_id |-> 0, type |-> "",
            remote |-> FALSE, idx |-> 0, fstatus |-> "-", res |-> "-"]
IdleQuery == [pc |-> "idle", tablet_id |-> 0, i |-> 0, status |-> "-",
              run_status |-> FALSE, compact_type |-> ""]
NoHist == [env |-> {}, stable |-> FALSE]
\* The parameters of a request not recorded.
NoParams == [tablet_id |-> "-", table_id |-> "-", compact_type |-> "-", remote |-> "-",
             should_fetch_from_peer |-> FALSE, debug_point |-> FALSE]

Init ==
    /\ base_lock = [tb \in Tablets |-> Free]
    /\ cumulative_lock = [tb \in Tablets |-> Free]
    /\ full_running = [tb \in Tablets |-> FALSE]
    /\ policy = [tb \in Tablets |-> 0]
    /\ base_failed = 0
    /\ cumu_failed = 0
    /\ req = [r \in Triggers |-> IdleReq]
    /\ task = [r \in Triggers |-> [tb \in Tablets |-> NoTask]]
    /\ query = [q \in Queries |-> IdleQuery]
    /\ qhist = [q \in Queries |-> NoHist]
    /\ http = [r \in Triggers |-> NoParams]
    /\ version_chain = [tb \in Tablets |-> InitChain]

\* Mutant of Variant: the fan-out passes the requested kind and remote flag on.
Variant_as_requested(r) ==
    IF req[r].path = "table"
    THEN CompactionVariant(http[r].compact_type, http[r].remote = "true")
    ELSE IF req[r].path = "debug" THEN "cumulative"
    ELSE CompactionVariant(req[r].type, req[r].remote)

\* The Compaction variant of the task trigger r started on a tablet: the
\* fan-out submits FULL_COMPACTION, the debug point CUMULATIVE_COMPACTION,
\* both with remote false; the callback dispatches on its arguments.
Variant(r) ==
    IF req[r].path = "table" THEN "full"
    ELSE IF req[r].path = "debug" THEN "cumulative"
    ELSE CompactionVariant(req[r].type, req[r].remote)

\* A task has started: it is between the lock acquisition of its prepare
\* and the exit of its prepare or execute.
Started(r, tb) == task[r][tb].pc \in {"select", "preturn", "execute"}

\* A task is in progress from the acquisition of its level locks in prepare
\* to their release at the end of execute, or at the exit of a prepare that
\* finds no candidates.
InProgress(r, tb) ==
    \/ task[r][tb].pc \in {"select", "execute"}
    \/ task[r][tb].pc = "preturn" /\ task[r][tb].pres # "LockConflict"

\* The kinds of task in progress on a tablet, by the status kind they are.
KindsInProgress(tb) ==
    {k \in {"full", "cumulative", "base"} :
        \E r \in Triggers :
            /\ InProgress(r, tb)
            /\ k = (IF Variant(r) = "single_replica" THEN "cumulative" ELSE Variant(r))}

InFlight(q) == query[q].pc \in {"try", "unlock"}

\* History: the queries in flight on tb see the set of tasks in progress change.
Disturbed(tb) ==
    [q \in Queries |->
        IF InFlight(q) /\ query[q].tablet_id = tb THEN NoHist ELSE qhist[q]]

\* ------------------------------------------------------------- actions

\* _handle_run_compaction up to the point where it starts something: the
\* parameter checks, the tablet lookup and the remote check touch no shared
\* state.  On the single-tablet path, with the debug point
\* "CompactionAction._handle_run_compaction.submit_cumu_task" enabled
\* (debug_point), the handler hands a cumulative compaction to the engine
\* with remote false and returns at once, the submission's error or
\* success (the submission is modelled from section 4.3, as in the
\* fan-out); otherwise it starts the detached thread running
\* _execute_compaction_callback and waits on its future.
Dispatch(r, e, debug_point) ==
    /\ req[r].pc = "idle"
    /\ IF e.status = "OK" /\ e.path = "single" /\ debug_point
       THEN \E st \in {"OK", "SubmitFailed"} :
              /\ req' = [req EXCEPT ![r] =
                    [pc |-> "done", path |-> "debug", tablet_id |-> e.tablet_id,
                     table_id |-> e.table_id, type |-> e.type, remote |-> e.remote,
                     idx |-> 0, fstatus |-> "-", res |-> st]]
              /\ task' = IF st = "OK"
                         THEN [task EXCEPT ![r][e.tablet_id] = [NoTask EXCEPT !.pc = "prepare"]]
                         ELSE task
       ELSE /\ req' = [req EXCEPT ![r] =
                  [pc |-> IF e.status # "OK" THEN "done"
                          ELSE IF e.path = "table" THEN "fanout" ELSE "wait",
                   path |-> e.path, tablet_id |-> e.tablet_id, table_id |-> e.table_id,
                   type |-> e.type, remote |-> e.remote,
                   idx |-> IF e.path = "table" THEN 1 ELSE 0,
                   fstatus |-> "-",
                   res |-> IF e.status # "OK" THEN e.status ELSE "-"]]
            /\ task' = IF e.status = "OK" /\ e.path = "single"
                       THEN [task EXCEPT ![r][e.tablet_id] = [NoTask EXCEPT !.pc = "bind"]]
                       ELSE task
    /\ UNCHANGED <<version_chain, base_lock, cumulative_lock, full_running, policy, base_failed,
                   cumu_failed, query, qhist>>

\* A trigger whose request is one of those leading to the outcomes E, with
\* the debug point enabled or not.
Trigger(r, E) ==
    /\ \E e \in E, g \in BOOLEAN : Dispatch(r, e, g)
    /\ UNCHANGED http

\* A trigger whose request parameters are recorded as they came in;
\* should_fetch_from_peer is what the tablet answers if it is looked up,
\* debug_point whether the debug point is enabled when the handler runs.
HandleRun(r) ==
    \E a \in IdStrings, b \in IdStrings, c \in TypeStrings, d \in RemoteStrings, p \in BOOLEAN, g \in BOOLEAN :
        /\ Dispatch(r, RunCompactionEntry(a, b, c, d, p), g)
        /\ http' = [http EXCEPT ![r] = [tablet_id |-> a, table_id |-> b, compact_type |-> c,
                                        remote |-> d, should_fetch_from_peer |-> p,
                                        debug_point |-> g]]

\* One iteration of the fan-out loop: submit_compaction_task(tablet,
\* FULL_COMPACTION, false) for the next matching tablet.  The submission
\* (modelled from section 4.3) either accepts the task, which then runs in
\* the background, or fails; RETURN_IF_ERROR ends the handler on a failure.
FanoutSubmit(r) ==
    /\ req[r].pc = "fanout"
    /\ req[r].idx <= Len(get_all_tablet(req[r].table_id))
    /\ LET tb == get_all_tablet(req[r].table_id)[req[r].idx]
       IN \E st \in {"OK", "SubmitFailed"} :
            /\ task' = IF st = "OK"
                       THEN [task EXCEPT ![r][tb] = [NoTask EXCEPT !.pc = "prepare"]]
                       ELSE task
            /\ req' = [req EXCEPT ![r] =
                          IF fanout_continues(st)
                          THEN [@ EXCEPT !.idx = @ + 1]
                          ELSE [@ EXCEPT !.pc = "done", !.res = st]]
    /\ UNCHANGED <<http, version_chain, base_lock, cumulative_lock, full_running, policy, base_failed,
                   cumu_failed, query, qhist>>

\* The loop is over: the handler returns the "successfully triggered" answer.
FanoutReturn(r) ==
    /\ req[r].pc = "fanout"
    /\ req[r].idx > Len(get_all_tablet(req[r].table_id))
    /\ req' = [req EXCEPT ![r].pc = "done", ![r].res = "OK"]
    /\ UNCHANGED <<http, version_chain, base_lock, cumulative_lock, full_running, policy, base_failed,
                   cumu_failed, task, query, qhist>>

\* wait_for returned ready: the task has set its result.
WaitReady(r) ==
    /\ req[r].pc = "wait"
    /\ task[r][req[r].tablet_id].pc = "done"
    /\ req' = [req EXCEPT ![r].pc = "done", ![r].fstatus = "ready",
                          ![r].res = wait_for_result("ready", task[r][req[r].tablet_id].res)]
    /\ UNCHANGED <<http, version_chain, base_lock, cumulative_lock, full_running, policy, base_failed,
                   cumu_failed, task, query, qhist>>

\* wait_for returned timeout: the two seconds passed with the task unfinished.
WaitTimeout(r) ==
    /\ req[r].pc = "wait"
    /\ task[r][req[r].tablet_id].pc # "done"
    /\ req' = [req EXCEPT ![r].pc = "done", ![r].fstatus = "timeout",
                          ![r].res = wait_for_result("timeout", "-")]
    /\ UNCHANGED <<http, version_chain, base_lock, cumulative_lock, full_running, policy, base_failed,
                   cumu_failed, task, query, qhist>>

\* _execute_compaction_callback: tablet->get_cumulative_compaction_policy()
\* == nullptr ?
PolicyCheck(r, tb) ==
    /\ task[r][tb].pc = "bind"
    /\ task' = [task EXCEPT ![r][tb].pc = IF policy[tb] = 0 THEN "setpol" ELSE "prepare"]
    /\ UNCHANGED <<http, version_chain, base_lock, cumulative_lock, full_running, policy, base_failed,
                   cumu_failed, req, query, qhist>>

\* tablet->set_cumulative_compaction_policy(the object this callback created).
PolicySet(r, tb) ==
    /\ task[r][tb].pc = "setpol"
    /\ policy' = [policy EXCEPT ![tb] = r]
    /\ task' = [task EXCEPT ![r][tb].pc = "prepare"]
    /\ UNCHANGED <<http, version_chain, base_lock, cumulative_lock, full_running, base_failed,
                   cumu_failed, req, query, qhist>>

\* compaction.prepare_compact(), first part (section 4.2): a Full task sets
\* the full-running flag, whether or not it gets the locks (section 3); the
\* task try-acquires the level locks of its variant without waiting.  When
\* one of them is held, prepare is about to return LockConflict.
PrepareCompact(r, tb) ==
    /\ task[r][tb].pc = "prepare"
    /\ LET v == Variant(r)
           conflict == \/ NeedsBase(v) /\ base_lock[tb] # Free
                       \/ NeedsCumu(v) /\ cumulative_lock[tb] # Free
       IN /\ task' = [task EXCEPT ![r][tb].pc = IF conflict THEN "preturn" ELSE "select",
                                  ![r][tb].pres = IF conflict
                                                  THEN prepare_status(TRUE, FALSE) ELSE "-"]
          /\ base_lock' = IF ~conflict /\ NeedsBase(v)
                          THEN [base_lock EXCEPT ![tb] = TaskOwner(r)] ELSE base_lock
          /\ cumulative_lock' = IF ~conflict /\ NeedsCumu(v)
                                THEN [cumulative_lock EXCEPT ![tb] = TaskOwner(r)]
                                ELSE cumulative_lock
          /\ full_running' = IF v = "full" THEN [full_running EXCEPT ![tb] = TRUE]
                             ELSE full_running
          /\ qhist' = IF conflict THEN qhist ELSE Disturbed(tb)
    /\ UNCHANGED <<http, version_chain, policy, base_failed, cumu_failed, req, query>>

\* prepare_compact(), second part: under the locks, select the candidates
\* and validate them; none qualifying is NoSuitableVersion.  A successful
\* prepare returns to do_compact, which goes on to execute.
SelectCandidates(r, tb) ==
    /\ task[r][tb].pc = "select"
    /\ LET cand == Candidates(Variant(r), version_chain[tb], cumulative_layer_point[tb])
       IN \E suitable \in {b \in BOOLEAN : b => cand # <<>>} :
            LET st == prepare_status(FALSE, suitable)
            IN  task' = [task EXCEPT ![r][tb].pres = st,
                                     ![r][tb].cand = IF st = "OK" THEN cand ELSE <<>>,
                                     ![r][tb].pc = IF st = "OK" THEN do_compact_next(st)
                                                   ELSE "preturn"]
    /\ UNCHANGED <<http, version_chain, base_lock, cumulative_lock, full_running, policy,
                   base_failed, cumu_failed, req, query, qhist>>

\* The exit of a failed prepare_compact(): the task gives back the locks it
\* acquired (section 5: a task holds its locks for the duration of its run)
\* and a Full task clears the flag (section 3); do_compact returns the
\* error.
PrepareReturn(r, tb) ==
    /\ task[r][tb].pc = "preturn"
    /\ LET st == task[r][tb].pres
       IN /\ task' = [task EXCEPT ![r][tb].pc = do_compact_next(st),
                                  ![r][tb].res = IF do_compact_next(st) = "finish"
                                                 THEN do_compact_result(st, "-")
                                                 ELSE "-"]
          /\ base_lock' = Release(base_lock, tb, TaskOwner(r))
          /\ cumulative_lock' = Release(cumulative_lock, tb, TaskOwner(r))
          /\ full_running' = IF clears_full_running(Variant(r), st)
                             THEN [full_running EXCEPT ![tb] = FALSE] ELSE full_running
          /\ qhist' = IF st = "LockConflict" THEN qhist ELSE Disturbed(tb)
    /\ UNCHANGED <<http, version_chain, policy, base_failed, cumu_failed, req, query>>

\* compaction.execute_compact() (section 4.2): merge or fetch the selected
\* candidates, publish, and release what the task holds, on success and on
\* failure; a Full task clears the flag.
ExecuteCompact(r, tb) ==
    /\ task[r][tb].pc = "execute"
    /\ \E merged \in {b \in BOOLEAN : b => task[r][tb].cand # <<>>} :
         /\ task' = [task EXCEPT ![r][tb].eres = execute_status(merged),
                                 ![r][tb].pc = "finish",
                                 ![r][tb].res = do_compact_result(task[r][tb].pres,
                                                                  execute_status(merged))]
         /\ version_chain' = IF merged
                              THEN [version_chain EXCEPT
                                        ![tb] = Publish(version_chain[tb], task[r][tb].cand)]
                              ELSE version_chain
    /\ base_lock' = Release(base_lock, tb, TaskOwner(r))
    /\ cumulative_lock' = Release(cumulative_lock, tb, TaskOwner(r))
    /\ full_running' = IF clears_full_running(Variant(r), task[r][tb].pres)
                       THEN [full_running EXCEPT ![tb] = FALSE] ELSE full_running
    /\ qhist' = Disturbed(tb)
    /\ UNCHANGED <<http, policy, base_failed, cumu_failed, req, query>>

\* _execute_compaction_callback after do_compact returned res: the branch's
\* failure counter.  A task handed to the engine (fan-out, debug point) does
\* not run the callback and counts nothing here.
CountFailure(r, tb) ==
    /\ task[r][tb].pc = "finish"
    /\ LET res == task[r][tb].res
           c == IF req[r].path = "single" THEN failed_counter(Variant(r), res) ELSE "none"
       IN /\ base_failed' = IF c = "base" THEN base_failed + 1 ELSE base_failed
          /\ cumu_failed' = IF c = "cumulative" THEN cumu_failed + 1 ELSE cumu_failed
    /\ task' = [task EXCEPT ![r][tb].pc = "return"]
    /\ UNCHANGED <<http, version_chain, base_lock, cumulative_lock, full_running, policy, req, query, qhist>>

\* timer.stop(), the log line and "return res": the packaged task's future
\* becomes ready.
CallbackReturn(r, tb) ==
    /\ task[r][tb].pc = "return"
    /\ task' = [task EXCEPT ![r][tb].pc = "done"]
    /\ UNCHANGED <<http, version_chain, base_lock, cumulative_lock, full_running, policy,
                   base_failed, cumu_failed, req, query, qhist>>

TaskNext(r, tb) ==
    \/ PolicyCheck(r, tb)
    \/ PolicySet(r, tb)
    \/ PrepareCompact(r, tb)
    \/ SelectCandidates(r, tb)
    \/ PrepareReturn(r, tb)
    \/ ExecuteCompact(r, tb)
    \/ CountFailure(r, tb)
    \/ CallbackReturn(r, tb)

\* The lock a probe of compact_type k try-acquires.
ProbedLock(k, tb) == IF k = "cumulative" THEN cumulative_lock[tb] ELSE base_lock[tb]

\* _handle_run_status_compaction up to the flag check: the parameter, the
\* tablet lookup, is_full_compaction_running().
StatusStart(q) ==
    /\ query[q].pc = "idle"
    /\ \E req_tablet_id \in IdStrings :
         LET cp == check_param_id(req_tablet_id)
         IN IF cp.status # "OK"
            THEN /\ query' = [query EXCEPT ![q] = [IdleQuery EXCEPT !.pc = "done",
                                                       !.status = cp.status]]
                 /\ UNCHANGED qhist
            ELSE IF cp.id = 0
            THEN /\ query' = [query EXCEPT ![q] = [IdleQuery EXCEPT !.pc = "done",
                                                       !.status = "OK",
                                                       !.compact_type = "overall"]]
                 /\ UNCHANGED qhist
            ELSE IF cp.id \notin Tablets
            THEN /\ query' = [query EXCEPT ![q] = [IdleQuery EXCEPT !.pc = "done",
                                                       !.status = "InternalError"]]
                 /\ UNCHANGED qhist
            ELSE LET a == status_after_flag(full_running[cp.id])
                 IN /\ query' = [query EXCEPT ![q] =
                           [pc |-> a.pc, tablet_id |-> cp.id,
                            i |-> IF a.pc = "try" THEN 1 ELSE 0,
                            status |-> IF a.pc = "done" THEN "OK" ELSE "-",
                            run_status |-> a.run_status, compact_type |-> a.compact_type]]
                    /\ qhist' = [qhist EXCEPT ![q] =
                           IF a.pc = "done" THEN NoHist
                           ELSE [env |-> KindsInProgress(cp.id), stable |-> TRUE]]
    /\ UNCHANGED <<http, version_chain, base_lock, cumulative_lock, full_running, policy, base_failed,
                   cumu_failed, req, task>>

\* std::unique_lock lock(..., std::try_to_lock) of the i-th probe block: on
\* failure the handler answers "running" with that block's compact_type.
TryLock(q) ==
    /\ query[q].pc = "try"
    /\ LET tb == query[q].tablet_id
           k == ProbeOrder[query[q].i]
       IN IF ProbedLock(k, tb) # Free
          THEN /\ query' = [query EXCEPT ![q].pc = "done", ![q].status = "OK",
                                         ![q].run_status = TRUE, ![q].compact_type = k,
                                         ![q].i = 0]
               /\ qhist' = [qhist EXCEPT ![q] = NoHist]
               /\ UNCHANGED <<base_lock, cumulative_lock>>
          ELSE /\ query' = [query EXCEPT ![q].pc = "unlock"]
               /\ UNCHANGED qhist
               /\ cumulative_lock' = IF k = "cumulative"
                                     THEN [cumulative_lock EXCEPT ![tb] = ProbeOwner(q)]
                                     ELSE cumulative_lock
               /\ base_lock' = IF k = "base"
                               THEN [base_lock EXCEPT ![tb] = ProbeOwner(q)]
                               ELSE base_lock
    /\ UNCHANGED <<http, version_chain, full_running, policy, base_failed, cumu_failed, req, task>>

\* The probe block's scope ends: the unique_lock releases the mutex; after
\* the last block the handler answers "not running".
Unlock(q) ==
    /\ query[q].pc = "unlock"
    /\ LET tb == query[q].tablet_id
           k == ProbeOrder[query[q].i]
       IN /\ cumulative_lock' = IF k = "cumulative"
                                THEN [cumulative_lock EXCEPT ![tb] = Free]
                                ELSE cumulative_lock
          /\ base_lock' = IF k = "base" THEN [base_lock EXCEPT ![tb] = Free] ELSE base_lock
          /\ IF query[q].i < Len(ProbeOrder)
             THEN /\ query' = [query EXCEPT ![q].pc = "try", ![q].i = @ + 1]
                  /\ UNCHANGED qhist
             ELSE /\ query' = [query EXCEPT ![q].pc = "done", ![q].status = "OK",
                                            ![q].run_status = FALSE,
                                            ![q].compact_type = "", ![q].i = 0]
                  /\ qhist' = [qhist EXCEPT ![q] = NoHist]
    /\ UNCHANGED <<http, version_chain, full_running, policy, base_failed, cumu_failed, req, task>>

\* _handle_show_compaction: the parameter, the tablet lookup and
\* tablet->get_compaction_status(), which reads the tablet.
ShowCompaction(q) ==
    /\ query[q].pc = "idle"
    /\ \E req_tablet_id \in IdStrings :
         LET cp == check_param_id(req_tablet_id)
             st == IF cp.status # "OK" THEN cp.status
                   ELSE IF cp.id = 0 THEN "InternalError"
                   ELSE IF cp.id \notin Tablets THEN "NotFound"
                   ELSE "OK"
         IN query' = [query EXCEPT ![q] =
                [IdleQuery EXCEPT !.pc = "done", !.status = st,
                                  !.tablet_id = IF st = "OK" THEN cp.id ELSE 0,
                                  !.compact_type = IF st = "OK" THEN "show" ELSE ""]]
    /\ UNCHANGED <<http, version_chain, base_lock, cumulative_lock, full_running, policy,
                   base_failed, cumu_failed, req, task, qhist>>

\* The whole action: one trigger, all the status queries.
Next ==
    \/ \E r \in OneTrigger : Trigger(r, Entries)
    \/ \E r \in OneTrigger : FanoutSubmit(r)
    \/ \E r \in OneTrigger : FanoutReturn(r)
    \/ \E r \in OneTrigger : WaitReady(r)
    \/ \E r \in OneTrigger : WaitTimeout(r)
    \/ \E r \in OneTrigger, tb \in Tablets : PolicyCheck(r, tb)
    \/ \E r \in OneTrigger, tb \in Tablets : PolicySet(r, tb)
    \/ \E r \in OneTrigger, tb \in Tablets : PrepareCompact(r, tb)
    \/ \E r \in OneTrigger, tb \in Tablets : SelectCandidates(r, tb)
    \/ \E r \in OneTrigger, tb \in Tablets : PrepareReturn(r, tb)
    \/ \E r \in OneTrigger, tb \in Tablets : ExecuteCompact(r, tb)
    \/ \E r \in OneTrigger, tb \in Tablets : CountFailure(r, tb)
    \/ \E r \in OneTrigger, tb \in Tablets : CallbackReturn(r, tb)
    \/ \E q \in Queries : StatusStart(q)
    \/ \E q \in Queries : TryLock(q)
    \/ \E q \in Queries : Unlock(q)
    \/ \E q \in Queries : ShowCompaction(q)

Spec == Init /\ [][Next]_vars

\* The triggers and their tasks alone: all the triggers, no status query.
NextTasks ==
    \/ \E r \in Triggers : Trigger(r, Entries)
    \/ \E r \in Triggers : FanoutSubmit(r)
    \/ \E r \in Triggers : FanoutReturn(r)
    \/ \E r \in Triggers : WaitReady(r)
    \/ \E r \in Triggers : WaitTimeout(r)
    \/ \E r \in Triggers, tb \in Tablets : PolicyCheck(r, tb)
    \/ \E r \in Triggers, tb \in Tablets : PolicySet(r, tb)
    \/ \E r \in Triggers, tb \in Tablets : PrepareCompact(r, tb)
    \/ \E r \in Triggers, tb \in Tablets : SelectCandidates(r, tb)
    \/ \E r \in Triggers, tb \in Tablets : PrepareReturn(r, tb)
    \/ \E r \in Triggers, tb \in Tablets : ExecuteCompact(r, tb)
    \/ \E r \in Triggers, tb \in Tablets : CountFailure(r, tb)
    \/ \E r \in Triggers, tb \in Tablets : CallbackReturn(r, tb)

SpecTasks == Init /\ [][NextTasks]_vars

\* The same with the scheduling the task threads have: a detached
\* std::thread keeps being scheduled, and neither prepare (a try-lock) nor
\* execute waits for another thread, so a task that can step does step.
FairSpecTasks ==
    SpecTasks /\ \A r \in Triggers, tb \in Tablets : WF_vars(TaskNext(r, tb))

\* Single-tablet triggers (all of them) against one status query.
NextStatus ==
    \/ \E r \in Triggers : Trigger(r, SingleEntries)
    \/ \E r \in Triggers : WaitReady(r)
    \/ \E r \in Triggers : WaitTimeout(r)
    \/ \E r \in Triggers, tb \in Tablets : PolicyCheck(r, tb)
    \/ \E r \in Triggers, tb \in Tablets : PolicySet(r, tb)
    \/ \E r \in Triggers, tb \in Tablets : PrepareCompact(r, tb)
    \/ \E r \in Triggers, tb \in Tablets : SelectCandidates(r, tb)
    \/ \E r \in Triggers, tb \in Tablets : PrepareReturn(r, tb)
    \/ \E r \in Triggers, tb \in Tablets : ExecuteCompact(r, tb)
    \/ \E r \in Triggers, tb \in Tablets : CountFailure(r, tb)
    \/ \E r \in Triggers, tb \in Tablets : CallbackReturn(r, tb)
    \/ \E q \in OneQuery : StatusStart(q)
    \/ \E q \in OneQuery : TryLock(q)
    \/ \E q \in OneQuery : Unlock(q)

SpecStatus == Init /\ [][NextStatus]_vars

\* One trigger with its request parameters recorded, its tasks, and one
\* run-status query probing the locks meanwhile.
NextRequests ==
    \/ \E r \in OneTrigger : HandleRun(r)
    \/ \E r \in OneTrigger : FanoutSubmit(r)
    \/ \E r \in OneTrigger : FanoutReturn(r)
    \/ \E r \in OneTrigger : WaitReady(r)
    \/ \E r \in OneTrigger : WaitTimeout(r)
    \/ \E r \in OneTrigger, tb \in Tablets : PolicyCheck(r, tb)
    \/ \E r \in OneTrigger, tb \in Tablets : PolicySet(r, tb)
    \/ \E r \in OneTrigger, tb \in Tablets : PrepareCompact(r, tb)
    \/ \E r \in OneTrigger, tb \in Tablets : SelectCandidates(r, tb)
    \/ \E r \in OneTrigger, tb \in Tablets : PrepareReturn(r, tb)
    \/ \E r \in OneTrigger, tb \in Tablets : ExecuteCompact(r, tb)
    \/ \E r \in OneTrigger, tb \in Tablets : CountFailure(r, tb)
    \/ \E r \in OneTrigger, tb \in Tablets : CallbackReturn(r, tb)
    \/ \E q \in OneQuery : StatusStart(q)
    \/ \E q \in OneQuery : TryLock(q)
    \/ \E q \in OneQuery : Unlock(q)

SpecRequests == Init /\ [][NextRequests]_vars

\* -------------------------------------------------------------- claims

\* The tasks in progress on a tablet whose variant holds the base lock, the
\* cumulative lock.
BaseLevelTasks(tb) == {r \in Triggers : InProgress(r, tb) /\ NeedsBase(Variant(r))}
CumuLevelTasks(tb) == {r \in Triggers : InProgress(r, tb) /\ NeedsCumu(Variant(r))}

\* Two variants are of the same level when they need a common level lock.
SameLevel(v, w) == (NeedsBase(v) /\ NeedsBase(w)) \/ (NeedsCumu(v) /\ NeedsCumu(w))

C1_AtMostOnePerLevel ==
    \A tb \in Tablets :
        /\ Cardinality(BaseLevelTasks(tb)) <= 1
        /\ Cardinality(CumuLevelTasks(tb)) <= 1

C1_PrepareNeverBlocks ==
    \A r \in Triggers, tb \in Tablets :
        /\ task[r][tb].pc = "prepare" => ENABLED PrepareCompact(r, tb)
        /\ task[r][tb].pc = "preturn" => ENABLED PrepareReturn(r, tb)

C1_ConflictStep ==
    \A r \in Triggers, tb \in Tablets :
        (/\ task[r][tb].pc = "prepare"
         /\ task'[r][tb].pc # "prepare"
         /\ \E o \in Triggers \ {r} :
                InProgress(o, tb) /\ SameLevel(Variant(o), Variant(r)))
        => (/\ task'[r][tb].pres = "LockConflict"
            /\ task'[r][tb].pc = "preturn"
            /\ base_lock'[tb] # TaskOwner(r) /\ cumulative_lock'[tb] # TaskOwner(r)
            /\ \E o \in Triggers \ {r} :
                   /\ task'[o][tb] = task[o][tb] /\ Started(o, tb)
                   /\ SameLevel(Variant(o), Variant(r)))

\* C1: on every tablet at most one task holding the base level and at most
\* one holding the cumulative level is between the lock acquisition of its
\* prepare and the end of its execute; the prepare of a second same-level
\* task, run while the first is still in progress, is always able to run
\* (it does not wait for the lock), fails with LockConflict in that one
\* step, gets no lock, can return at once and leaves the first task in
\* progress.
C1_LevelMutualExclusion ==
    /\ [](C1_AtMostOnePerLevel /\ C1_PrepareNeverBlocks)
    /\ [][C1_ConflictStep]_vars

\* A Base task is in progress on tablet 1 and a second Base task on the
\* same tablet has ended its prepare with LockConflict.
C1_Witness ==
    \E r \in Triggers, o \in Triggers :
        /\ r # o
        /\ InProgress(o, 1) /\ Variant(o) = "base"
        /\ Variant(r) = "base" /\ req[r].path = "single"
        /\ task[r][1].pc = "finish" /\ task[r][1].pres = "LockConflict"

\* C5: execute_compact of a task is called only after prepare_compact of
\* that task returned OK; a task whose prepare failed never calls execute
\* and its result is the prepare error.
C5_ExecuteOnlyAfterPrepare ==
    \A r \in Triggers, tb \in Tablets :
        LET t == task[r][tb]
        IN  /\ (t.pc = "execute" \/ t.eres # "-") => t.pres = "OK"
            /\ (t.pc \in {"finish", "return", "done"} /\ t.pres # "OK")
                   => (t.eres = "-" /\ t.res = t.pres
                       /\ t.pres \in {"NoSuitableVersion", "LockConflict"})
            /\ (t.pc \in {"finish", "return", "done"} /\ t.pres = "OK") => t.res = t.eres

\* One task is done with the LockConflict of its prepare and no execute, the
\* other (of another variant, after a successful prepare) has executed.
C5_Witness ==
    \E r \in Triggers, o \in Triggers :
        /\ r # o
        /\ task[r][1].pc = "done" /\ task[r][1].pres = "LockConflict"
        /\ task[r][1].eres = "-" /\ task[r][1].res = "LockConflict"
        /\ task[o][1].pc = "done" /\ task[o][1].pres = "OK" /\ task[o][1].eres = "MergeFailed"
        /\ Variant(o) = "single_replica"

\* The task a single-tablet trigger started.
TaskOf(r) == task[r][req[r].tablet_id]

TimedOut(r) == req[r].pc = "done" /\ req[r].fstatus = "timeout"

\* The single-tablet tasks that have passed the counters and count as a
\* failure of the given variant: every error but NoSuitableVersion.
CountedFailures(variant) ==
    {r \in Triggers :
        /\ req[r].path = "single" /\ TaskOf(r).pc \in {"return", "done"}
        /\ Variant(r) = variant
        /\ TaskOf(r).res \notin {"OK", "NoSuitableVersion"}}

C7_AcceptedOnTimeout ==
    \A r \in Triggers :
        /\ TimedOut(r) => req[r].res = "OK"
        /\ (TimedOut(r) /\ TaskOf(r).pc # "done") => ENABLED TaskNext(r, req[r].tablet_id)
        /\ (TimedOut(r) /\ TaskOf(r).pc = "done")
               => /\ TaskOf(r).res \in {"OK", "NoSuitableVersion", "LockConflict", "MergeFailed"}
                  /\ base_lock[req[r].tablet_id] # TaskOwner(r)
                  /\ cumulative_lock[req[r].tablet_id] # TaskOwner(r)
                  /\ (TaskOf(r).eres # "-" <=> TaskOf(r).pres = "OK")

C7_CountersCountAllTasks ==
    /\ base_failed = Cardinality(CountedFailures("base"))
    /\ cumu_failed = Cardinality(CountedFailures("cumulative"))

\* C7: a single-tablet trigger whose wait timed out answers success, and its
\* task is not cancelled: it can always take its next step and, scheduled
\* fairly, reaches its terminal result through prepare and (after a
\* successful prepare) execute, with its locks released; the failure
\* counters count the tasks of timed-out triggers exactly as they count the
\* tasks that were waited for.
C7_TimeoutLeavesTaskRunning ==
    /\ [](C7_AcceptedOnTimeout /\ C7_CountersCountAllTasks)
    /\ \A r \in Triggers : TimedOut(r) ~> (TimedOut(r) /\ TaskOf(r).pc = "done")

\* The wait of a base trigger timed out before the task had prepared; the
\* task went on, executed, failed and was counted.
C7_Witness ==
    \E r \in Triggers :
        /\ TimedOut(r) /\ req[r].res = "OK"
        /\ Variant(r) = "base"
        /\ TaskOf(r).pc = "done" /\ TaskOf(r).pres = "OK" /\ TaskOf(r).eres = "MergeFailed"
        /\ base_failed >= 1
        /\ base_lock[req[r].tablet_id] = Free

TaskFailures == {"NoSuitableVersion", "LockConflict", "MergeFailed"}

\* C8: a single-tablet trigger whose wait ended ready returns exactly the
\* task's result (success, or the task's failure status), and a trigger
\* returns a task failure only then: after a timeout it answers success.
C8_ReadyReturnsTaskResult ==
    \A r \in Triggers :
        req[r].pc = "done" =>
            /\ req[r].fstatus = "ready"
                   => (TaskOf(r).pc = "done" /\ req[r].res = TaskOf(r).res)
            /\ req[r].res \in TaskFailures
                   => (/\ req[r].path = "single" /\ req[r].fstatus = "ready"
                       /\ TaskOf(r).res = req[r].res)
            /\ req[r].fstatus = "timeout" => req[r].res = "OK"

\* One trigger waited and got its task's MergeFailed; the other timed out,
\* answered success, and its task later ended with LockConflict.
C8_Witness ==
    \E r \in Triggers, o \in Triggers :
        /\ req[r].pc = "done" /\ req[r].fstatus = "ready" /\ req[r].res = "MergeFailed"
        /\ TimedOut(o) /\ req[o].res = "OK"
        /\ TaskOf(o).pc = "done" /\ TaskOf(o).res = "LockConflict"

\* The tablets a table-level trigger matches, in submission order.
Matching(r) == get_all_tablet(req[r].table_id)

Submitted(r, tb) == task[r][tb].pc # "none"

\* C6: a task that has its terminal result (prepare failed, execute failed
\* or execute succeeded) owns neither level lock of its tablet, and a Full
\* task has cleared full_running: the flag is set only while another Full
\* task is between the start of its prepare and its exit; on a tablet with
\* no task between the start of its prepare and its exit (so also when all
\* its tasks have terminated) full_running is false and no level lock is
\* owned by a task: each is free, or held for a moment by a status query's
\* probe.
C6_NothingHeldAfterTermination ==
    /\ \A r \in Triggers, tb \in Tablets :
           task[r][tb].pc \in {"finish", "return", "done"} =>
               /\ base_lock[tb] # TaskOwner(r)
               /\ cumulative_lock[tb] # TaskOwner(r)
               /\ (Variant(r) = "full" /\ full_running[tb])
                      => \E o \in Triggers \ {r} : Started(o, tb) /\ Variant(o) = "full"
    /\ \A tb \in Tablets :
           (\A r \in Triggers : ~Started(r, tb)) =>
               /\ ~full_running[tb]
               /\ base_lock[tb] \in {Free} \cup {ProbeOwner(q) : q \in Queries}
               /\ cumulative_lock[tb] \in {Free} \cup {ProbeOwner(q) : q \in Queries}
               /\ (\A q \in Queries : ~(InFlight(q) /\ query[q].tablet_id = tb))
                      => (base_lock[tb] = Free /\ cumulative_lock[tb] = Free)

\* On tablet 1 a Full task, which held both locks and the flag, has ended
\* with a failed prepare (no candidates) and another Full task with a
\* failed execute; nothing is running or probing and everything is
\* released.
C6_Witness ==
    \E r \in Triggers, o \in Triggers :
        /\ r # o
        /\ Variant(r) = "full" /\ task[r][1].pc = "done"
        /\ task[r][1].pres = "NoSuitableVersion"
        /\ Variant(o) = "full" /\ task[o][1].pc = "done" /\ task[o][1].res = "MergeFailed"
        /\ \A q \in Queries : ~InFlight(q)
        /\ \E q \in Queries : query[q].pc = "done" /\ query[q].compact_type = "full"
        /\ base_lock[1] = Free /\ cumulative_lock[1] = Free /\ ~full_running[1]

\* C9 as stated: when a table-level trigger has returned, every matching
\* tablet but the one whose submission failed has a task submitted.
C9_FanoutContinuesAfterFailure ==
    \A r \in Triggers :
        (req[r].pc = "done" /\ req[r].path = "table") =>
            \A j \in 1..Len(Matching(r)) :
                (req[r].res = "OK" \/ j # req[r].idx) => Submitted(r, Matching(r)[j])

\* C9 amended: the fan-out submits in order and stops at the first failed
\* submission: the trigger returns that error, the tablets before the failed
\* one have their task, the failed one and all the later ones have none;
\* every matching tablet has a task only when the trigger returns success.
C9_FanoutStopsAtFirstFailure ==
    \A r \in Triggers :
        req[r].path = "table" =>
            LET n == Len(Matching(r))
            IN  /\ req[r].idx \in 1..(n + 1)
                /\ \A j \in 1..n : Submitted(r, Matching(r)[j]) <=> j < req[r].idx
                /\ req[r].pc = "done" =>
                       IF req[r].res = "OK"
                       THEN req[r].idx = n + 1
                       ELSE req[r].res = "SubmitFailed" /\ req[r].idx <= n

\* The submission for the first of two matching tablets failed: the trigger
\* returned the error and the second tablet was never submitted to.
C9_Witness ==
    \E r \in Triggers :
        /\ req[r].pc = "done" /\ req[r].path = "table" /\ req[r].res = "SubmitFailed"
        /\ Len(Matching(r)) = 2 /\ req[r].idx = 1
        /\ ~Submitted(r, Matching(r)[1]) /\ ~Submitted(r, Matching(r)[2])

\* C10 as stated: a table-level trigger that has returned has answered
\* success and has submitted a task to exactly the tablets of its table.
C10_OneTaskPerMatchingTablet ==
    \A r \in Triggers :
        (req[r].pc = "done" /\ req[r].path = "table") =>
            /\ req[r].res = "OK"
            /\ \A tb \in Tablets : Submitted(r, tb) <=> TabletTable[tb] = req[r].table_id

\* C10 amended: a table-level trigger (table_id alone, not 0) submits only
\* to tablets of its table; when no submission fails it returns success with
\* a task submitted to each of them (none when no tablet matches), never
\* having waited on a task: it can always take its next step, whatever the
\* submitted tasks are doing; when a submission fails it returns that error
\* with tasks submitted to the earlier matching tablets only.
C10_FanoutSubmitsWithoutWaiting ==
    \A r \in Triggers :
        req[r].path = "table" =>
            /\ req[r].table_id # 0 /\ req[r].tablet_id = 0
            /\ req[r].fstatus = "-"
            /\ \A tb \in Tablets : Submitted(r, tb) => TabletTable[tb] = req[r].table_id
            /\ (req[r].pc = "done" /\ req[r].res = "OK")
                   => \A tb \in Tablets : TabletTable[tb] = req[r].table_id => Submitted(r, tb)
            /\ (req[r].pc = "done" /\ req[r].res # "OK")
                   => \A j \in 1..Len(Matching(r)) :
                          Submitted(r, Matching(r)[j]) <=> j < req[r].idx
            /\ req[r].pc = "fanout" => ENABLED (FanoutSubmit(r) \/ FanoutReturn(r))
            /\ req[r].pc \in {"fanout", "done"}

\* One trigger on table 1 has returned success while both its tasks have not
\* even prepared; another, on a table without tablets, returned success
\* with no task.
C10_Witness ==
    \E r \in Triggers, o \in Triggers :
        /\ req[r].pc = "done" /\ req[r].path = "table" /\ req[r].res = "OK"
        /\ req[r].table_id = 1
        /\ task[r][1].pc = "prepare" /\ task[r][2].pc = "prepare" /\ ~Submitted(r, 3)
        /\ req[o].pc = "done" /\ req[o].path = "table" /\ req[o].res = "OK"
        /\ Len(Matching(o)) = 0 /\ \A tb \in Tablets : ~Submitted(o, tb)

\* A run-status query for a known tablet reads the flag in this step.
QueryStarts(q) ==
    /\ query[q].pc = "idle" /\ query'[q].pc # "idle" /\ query'[q].tablet_id \in Tablets
    /\ query'[q].compact_type # "show"

\* A status query that went on to the lock probes answers in this step.
QueryReturns(q) == InFlight(q) /\ query'[q].pc = "done"

Answers(q, running, kind) ==
    /\ query'[q].pc = "done" /\ query'[q].status = "OK"
    /\ query'[q].run_status = running /\ query'[q].compact_type = kind

C2_FlagSetWhileFullRuns ==
    \A tb \in Tablets : "full" \in KindsInProgress(tb) => full_running[tb]

C2_StartStep ==
    \A q \in Queries :
        (QueryStarts(q) /\ "full" \in KindsInProgress(query'[q].tablet_id))
            => Answers(q, TRUE, "full")

\* C2 as stated: full_running is set in every state in which a Full task is
\* in progress (from the lock acquisition of its prepare to the end of its
\* execute), and a run-status query that starts in such a state answers
\* running=true, kind=full in that very step, without probing a lock,
\* whatever the other queries and triggers are doing.
C2_FullReportedWhileFullRuns ==
    /\ []C2_FlagSetWhileFullRuns
    /\ [][C2_StartStep]_vars

\* The decision of a query, step by step: the flag first, then the
\* cumulative try-lock, then the base try-lock, each answering at once when
\* it finds its kind running.
C3_DecisionSteps ==
    \A q \in Queries :
        LET tb == query[q].tablet_id
        IN  /\ QueryStarts(q) =>
                   IF full_running[query'[q].tablet_id]
                   THEN Answers(q, TRUE, "full")
                   ELSE query'[q].pc = "try" /\ query'[q].i = 1
            /\ (query[q].pc = "try" /\ query'[q] # query[q] /\ query[q].i = 1) =>
                   IF cumulative_lock[tb] # Free
                   THEN Answers(q, TRUE, "cumulative") /\ UNCHANGED cumulative_lock
                   ELSE /\ query'[q].pc = "unlock"
                        /\ cumulative_lock'[tb] = ProbeOwner(q)
            /\ (query[q].pc = "try" /\ query'[q] # query[q] /\ query[q].i = 2) =>
                   IF base_lock[tb] # Free
                   THEN Answers(q, TRUE, "base") /\ UNCHANGED base_lock
                   ELSE query'[q].pc = "unlock" /\ base_lock'[tb] = ProbeOwner(q)
            /\ (query[q].pc = "unlock" /\ query'[q] # query[q] /\ query[q].i = 1) =>
                   query'[q].pc = "try" /\ query'[q].i = 2 /\ cumulative_lock'[tb] = Free
            /\ (query[q].pc = "unlock" /\ query'[q] # query[q] /\ query[q].i = 2) =>
                   Answers(q, FALSE, "") /\ base_lock'[tb] = Free
            /\ query[q].pc \in {"try", "unlock"} => query[q].i \in {1, 2}

C3_CumulativeBeforeBase ==
    \A q \in Queries :
        (QueryReturns(q) /\ qhist[q].stable /\ "cumulative" \in qhist[q].env)
            => Answers(q, TRUE, "cumulative")

\* C3: the run-status query decides by the fixed priority: full when it
\* finds the flag set; else cumulative when its try-lock of cumulative_lock
\* fails; else base when its try-lock of base_lock fails; else not running
\* with no kind.  A query during whose whole flight a cumulative-level task
\* is in progress answers cumulative, also when a Base task is in progress
\* with it: never base.
C3_FixedPriority ==
    [][C3_DecisionSteps /\ C3_CumulativeBeforeBase]_vars

\* A Base and a Cumulative task are both in progress on tablet 1 and the
\* query has answered cumulative.
C3_Witness ==
    \E r \in Triggers, o \in Triggers, q \in Queries :
        /\ InProgress(r, 1) /\ Variant(r) = "base"
        /\ InProgress(o, 1) /\ Variant(o) = "cumulative"
        /\ query[q].pc = "done" /\ query[q].tablet_id = 1
        /\ query[q].run_status /\ query[q].compact_type = "cumulative"

\* C4 as stated: a query during whose whole flight a Cumulative task, and
\* no other, is in progress answers running=true, kind=cumulative; a query
\* during whose whole flight no task is in progress on the tablet answers
\* running=false with no kind.
C4_StatusFollowsTasks ==
    [][\A q \in Queries :
          (QueryReturns(q) /\ qhist[q].stable) =>
              /\ qhist[q].env = {"cumulative"} => Answers(q, TRUE, "cumulative")
              /\ qhist[q].env = {} => Answers(q, FALSE, "")]_vars

\* The step in which a task, its compaction ended, passes the counters; the
\* return that makes the result available to a waiting trigger is a later
\* step.
FinishStep(r, tb) == task[r][tb].pc = "finish" /\ task'[r][tb].pc = "return"

Benign == {"OK", "NoSuitableVersion"}

\* C11 as stated: a task that ends with NoSuitableVersion leaves both
\* counters alone, a task that ends with any other error increments a
\* failure counter, and the counters never decrease and move by one.
C11_EveryOtherErrorCounted ==
    [][/\ base_failed' \in {base_failed, base_failed + 1}
       /\ cumu_failed' \in {cumu_failed, cumu_failed + 1}
       /\ \A r \in Triggers, tb \in Tablets :
            FinishStep(r, tb) =>
               /\ task[r][tb].res = "NoSuitableVersion"
                     => UNCHANGED <<base_failed, cumu_failed>>
               /\ task[r][tb].res \notin Benign
                     => base_failed' + cumu_failed' = base_failed + cumu_failed + 1]_vars

\* The task of trigger r is run by _execute_compaction_callback: the
\* single-tablet path with the debug point off.
RunByCallback(r) == req[r].path = "single"

\* C11 (amended): a task that ends with NoSuitableVersion leaves both
\* counters alone; a Base task run by the trigger's callback that ends with
\* any other error adds exactly one to the base counter and a local
\* Cumulative task run by the callback that ends with any other error adds
\* exactly one to the cumulative counter; a Full or SingleReplicaFetch
\* task, and a task handed to the engine by the fan-out or by the debug
\* point, changes neither counter whatever its result; no other step
\* changes a counter, so the counters never decrease.
C11_BaseAndCumulativeErrorsCounted ==
    [][/\ \A r \in Triggers, tb \in Tablets :
            FinishStep(r, tb) =>
               /\ base_failed' = base_failed +
                     (IF RunByCallback(r) /\ Variant(r) = "base"
                         /\ task[r][tb].res \notin Benign THEN 1 ELSE 0)
               /\ cumu_failed' = cumu_failed +
                     (IF RunByCallback(r) /\ Variant(r) = "cumulative"
                         /\ task[r][tb].res \notin Benign THEN 1 ELSE 0)
       /\ (\A r \in Triggers, tb \in Tablets : ~FinishStep(r, tb))
             => UNCHANGED <<base_failed, cumu_failed>>]_vars

\* A Base task has ended with NoSuitableVersion and a Cumulative task run
\* by the callback with another error: the cumulative counter is one, the
\* base counter zero.
C11_Witness ==
    \E r \in Triggers, o \in Triggers :
        /\ req[r].path = "single" /\ Variant(r) = "base"
        /\ TaskOf(r).pc = "done" /\ TaskOf(r).res = "NoSuitableVersion"
        /\ req[o].path = "single" /\ Variant(o) = "cumulative"
        /\ TaskOf(o).pc = "done" /\ TaskOf(o).res = "MergeFailed"
        /\ base_failed = 0 /\ cumu_failed = 1

\* C12 as stated: a single-tablet base trigger whose prepare yields
\* NoSuitableVersion returns success, whether its wait ended ready or timed
\* out, and its task leaves the base failure counter unchanged.
C12_NoSuitableVersionIsSuccess ==
    /\ [](\A r \in Triggers :
            (/\ req[r].pc = "done" /\ req[r].path = "single" /\ req[r].type = "base"
             /\ TaskOf(r).pres = "NoSuitableVersion") => req[r].res = "OK")
    /\ [][\A r \in Triggers, tb \in Tablets :
            (FinishStep(r, tb) /\ Variant(r) = "base"
             /\ task[r][tb].pres = "NoSuitableVersion") => base_failed' = base_failed]_vars

\* The request of trigger r has come in and its parameters are recorded.
Recorded(r) == http[r] # NoParams

\* The handler of trigger r is entered in this step.
EntryStep(r) == req[r].pc = "idle" /\ req'[r].pc # "idle"

\* Trigger r has started no task.
NoTaskOf(r) == \A tb \in Tablets : task[r][tb] = NoTask

Kinds == {"base", "cumulative", "full"}
RemoteValues == {"true", "false", ""}

\* C13: a trigger request with both tablet_id and table_id, and one with
\* neither, ends with the validation error of _check_param and starts
\* nothing, whatever its compaction kind, remote value and tablet; a
\* request that got past the parameter check supplied exactly one of them.
C13_ExactlyOneId ==
    \A r \in OneTrigger :
        Recorded(r) =>
            LET both == http[r].tablet_id # "" /\ http[r].table_id # ""
                neither == http[r].tablet_id = "" /\ http[r].table_id = ""
            IN  /\ (both \/ neither)
                      => (req[r].pc = "done" /\ req[r].res = "InternalError" /\ NoTaskOf(r))
                /\ req[r].res # "InternalError" => (~both /\ ~neither)

\* A request with both ids, otherwise valid (kind base, remote=true on a
\* tablet that may fetch from its peer), has been rejected.
C13_Witness ==
    \E r \in OneTrigger :
        /\ http[r].tablet_id = "1" /\ http[r].table_id = "1"
        /\ http[r].compact_type = "base" /\ http[r].remote = "true"
        /\ http[r].should_fetch_from_peer
        /\ req[r].pc = "done" /\ req[r].res = "InternalError"

\* The request names one known tablet, by tablet_id alone.
SingleTabletRequest(h) ==
    /\ h.table_id = "" /\ Stoull(h.tablet_id).ok /\ Stoull(h.tablet_id).val \in Tablets

\* remote=true with a valid kind on a tablet that must compact locally.
IneligibleRemote(h) ==
    /\ SingleTabletRequest(h) /\ h.compact_type \in Kinds
    /\ h.remote = "true" /\ ~h.should_fetch_from_peer

C14_Rejected ==
    \A r \in OneTrigger :
        (Recorded(r) /\ IneligibleRemote(http[r]))
            => (req[r].pc = "done" /\ req[r].res = "NotSupported" /\ NoTaskOf(r))

C14_NothingTouched ==
    \A r \in OneTrigger :
        (EntryStep(r) /\ IneligibleRemote(http'[r]))
            => UNCHANGED <<task, base_lock, cumulative_lock, full_running>>

\* C14: a single-tablet trigger with remote=true on a tablet whose
\* should_fetch_from_peer is false ends with NotSupported for each of the
\* kinds base, cumulative and full; it starts no task, and the step that
\* rejects it changes no lock and no full_running flag.
C14_IneligibleRemoteRejected ==
    []C14_Rejected /\ [][C14_NothingTouched]_vars

\* The rejection of a remote base request, while the status query holds the
\* tablet's cumulative lock in its probe.
C14_Witness ==
    \E r \in OneTrigger, q \in OneQuery :
        /\ IneligibleRemote(http[r]) /\ http[r].compact_type = "base"
        /\ req[r].pc = "done" /\ req[r].res = "NotSupported"
        /\ cumulative_lock[1] = ProbeOwner(q)

\* The requests the validation and the lookup reject: both or neither id,
\* an unparsable id, a kind or a remote value outside the accepted ones, a
\* tablet id of no tablet, remote on an ineligible tablet.
Rejectable(h) ==
    \/ h.tablet_id # "" /\ h.table_id # ""
    \/ h.tablet_id = "" /\ h.table_id = ""
    \/ h.tablet_id # "" /\ ~Stoull(h.tablet_id).ok
    \/ h.table_id # "" /\ ~Stoull(h.table_id).ok
    \/ h.compact_type \notin Kinds
    \/ h.remote \notin RemoteValues
    \/ h.table_id = "" /\ Stoull(h.tablet_id).ok /\ Stoull(h.tablet_id).val \notin Tablets
    \/ IneligibleRemote(h)

Rejections == {"InternalError", "NotSupported", "NotFound"}

C15_EntryStep ==
    \A r \in OneTrigger :
        EntryStep(r) =>
            /\ Rejectable(http'[r]) => (req'[r].pc = "done" /\ req'[r].res \in Rejections)
            /\ req'[r].res \in Rejections =>
                  /\ req'[r].pc = "done"
                  /\ UNCHANGED <<task, base_lock, cumulative_lock, full_running, policy,
                                 version_chain, base_failed, cumu_failed, query, qhist>>

\* C15: a trigger request of one of the rejected classes returns its error
\* in the step that enters the handler, whether the debug point is enabled
\* or not, and a request that gets a validation or not-found error leaves
\* everything but its own record as it was: no task, lock, flag, policy,
\* version chain or counter changes, nor any status query.
C15_RejectionChangesNothing == [][C15_EntryStep]_vars

\* An unknown compaction kind has been rejected while the status query
\* holds a probed lock: the lock is still the query's.
C15_Witness ==
    \E r \in OneTrigger, q \in OneQuery :
        /\ Recorded(r) /\ http[r].compact_type = "merge"
        /\ http[r].tablet_id = "1" /\ http[r].table_id = ""
        /\ req[r].pc = "done" /\ req[r].res = "NotSupported" /\ NoTaskOf(r)
        /\ base_lock[1] = ProbeOwner(q)

\* The request names a table, by a non-zero table_id alone, with an
\* accepted kind and remote value.
TableRequest(h) ==
    /\ h.tablet_id = "" /\ Stoull(h.table_id).ok /\ Stoull(h.table_id).val # 0
    /\ h.compact_type \in Kinds /\ h.remote \in RemoteValues

\* C20: a table-level request with an accepted kind and remote value takes
\* the fan-out whatever the kind, the remote value and the tablets' peer
\* eligibility; each task it submits is on a tablet of the table and is a
\* Full compaction with the remote flag false: in progress it holds both
\* level locks and full_running and merges the whole chain.  A request
\* that took the fan-out carried an accepted kind and remote value.
C20_FanoutSubmitsFull ==
    \A r \in OneTrigger :
        Recorded(r) =>
            /\ TableRequest(http[r]) =>
                  /\ req[r].path = "table" /\ req[r].remote = FALSE
                  /\ \A tb \in Tablets :
                        /\ Submitted(r, tb) =>
                              /\ TabletTable[tb] = Stoull(http[r].table_id).val
                              /\ Variant(r) = "full"
                        /\ InProgress(r, tb) =>
                              /\ base_lock[tb] = TaskOwner(r)
                              /\ cumulative_lock[tb] = TaskOwner(r)
                              /\ full_running[tb]
                              /\ task[r][tb].pc = "execute" =>
                                    task[r][tb].cand = <<0, max_version(version_chain[tb])>>
            /\ req[r].path = "table" => TableRequest(http[r])

\* A table request for base compaction with remote=true, on tablets that
\* must compact locally, has a Full task in progress on tablet 2.
C20_Witness ==
    \E r \in OneTrigger :
        /\ http[r].table_id = "1" /\ http[r].tablet_id = ""
        /\ http[r].compact_type = "base" /\ http[r].remote = "true"
        /\ ~http[r].should_fetch_from_peer
        /\ InProgress(r, 2) /\ full_running[2]
        /\ base_lock[2] = TaskOwner(r) /\ cumulative_lock[2] = TaskOwner(r)

Rowsets(chain) == {chain[i] : i \in 1..Len(chain)}

\* The rowsets of a chain cover [0, its last version] without gap or overlap.
ContiguousCover(chain) ==
    /\ Len(chain) >= 1 /\ chain[1].start = 0
    /\ \A i \in 1..Len(chain) : chain[i].start <= chain[i].end
    /\ \A i \in 1..(Len(chain) - 1) : chain[i + 1].start = chain[i].end + 1

C16_ChainCovers ==
    \A tb \in Tablets :
        /\ ContiguousCover(version_chain[tb])
        /\ max_version(version_chain[tb]) = max_version(InitChain)

\* A step that changes a chain is the end of a successful execute of a task
\* in progress on the tablet, and swaps the rowsets of the task's candidate
\* range (at least two) for the one rowset of that range.
C16_PublishStep ==
    \A tb \in Tablets :
        version_chain'[tb] # version_chain[tb] =>
            \E r \in Triggers :
                LET c == task[r][tb].cand
                    merged == [start |-> c[1], end |-> c[2]]
                    old == Rowsets(version_chain[tb])
                    inside == {rs \in old : rs.start >= c[1] /\ rs.end <= c[2]}
                IN  /\ InProgress(r, tb) /\ task'[r][tb].eres = "OK"
                    /\ Cardinality(inside) >= 2
                    /\ Rowsets(version_chain'[tb]) = (old \ inside) \union {merged}
                    /\ Len(version_chain'[tb]) = Len(version_chain[tb]) - Cardinality(inside) + 1

\* C16: in every reachable state each tablet's version chain is a
\* contiguous, non-overlapping cover of [0, max_version] and max_version is
\* the one the tablet started with; the chain changes only by the publish
\* of a successful execute, which replaces the merged rowsets by the one
\* merged rowset in a single step.
C16_ChainAlwaysContiguous ==
    []C16_ChainCovers /\ [][C16_PublishStep]_vars

\* A Base task has published its merge on tablet 1 while a Cumulative task
\* is in progress on the same tablet.
C16_Witness ==
    \E r \in Triggers, o \in Triggers :
        /\ Variant(r) = "base" /\ req[r].path = "single" /\ TaskOf(r).eres = "OK"
        /\ Variant(o) = "cumulative" /\ InProgress(o, 1)
        /\ version_chain[1] = <<[start |-> 0, end |-> 1], [start |-> 2, end |-> 2],
                                [start |-> 3, end |-> 3]>>

\* C17 as stated: once a tablet's cumulative policy is bound, no later or
\* concurrent task replaces it.
C17_PolicyBoundOnce ==
    [][\A tb \in Tablets : policy[tb] # 0 => policy'[tb] = policy[tb]]_vars

\* A step of status query q.
QueryStep(q) == query'[q] # query[q]

\* Status query q owns no level lock.
HoldsNothing(q) ==
    \A tb \in Tablets : base_lock[tb] # ProbeOwner(q) /\ cumulative_lock[tb] # ProbeOwner(q)

\* A status query's own steps change no flag, policy, chain, counter, task
\* or trigger, and a lock only between free and the query's probe.
C18_OwnSteps ==
    \A q \in Queries :
        QueryStep(q) =>
            /\ UNCHANGED <<full_running, policy, version_chain, base_failed, cumu_failed,
                           task, req>>
            /\ \A tb \in Tablets :
                  /\ base_lock'[tb] # base_lock[tb]
                        => {base_lock[tb], base_lock'[tb]} = {Free, ProbeOwner(q)}
                  /\ cumulative_lock'[tb] # cumulative_lock[tb]
                        => {cumulative_lock[tb], cumulative_lock'[tb]} = {Free, ProbeOwner(q)}

\* A query that is not running holds nothing; a running one never waits.
C18_ReleasedAndNonBlocking ==
    \A q \in Queries :
        /\ query[q].pc \in {"idle", "done"} => HoldsNothing(q)
        /\ InFlight(q) => ENABLED (TryLock(q) \/ Unlock(q))

\* What the queries themselves do, which holds of the code.
C18_QueryFrame == []C18_ReleasedAndNonBlocking /\ [][C18_OwnSteps]_vars

\* No task sees a query: a prepare that fails on a held lock fails on a
\* lock held by a compaction task.
C18_TasksUnaffected ==
    \A r \in Triggers, tb \in Tablets :
        (task[r][tb].pc = "prepare" /\ task'[r][tb].pres = "LockConflict") =>
            \/ NeedsBase(Variant(r)) /\ base_lock[tb][1] = "task"
            \/ NeedsCumu(Variant(r)) /\ cumulative_lock[tb][1] = "task"

\* C18 as stated: the status queries are non-mutating.  Their own steps
\* change nothing but a probed lock, which is released before the query
\* returns, and they never wait; and the locks, flag, policy, chain and
\* counters are as they would be had the query not run: no compaction task
\* takes another course because of a query.
C18_StatusQueriesNonMutating ==
    /\ []C18_ReleasedAndNonBlocking
    /\ [][C18_OwnSteps /\ C18_TasksUnaffected]_vars

\* C19 as stated: a Base or Cumulative task whose prepare runs while no
\* other compaction task is in progress on its tablet does not get
\* LockConflict, whatever the status queries on the tablet are doing.
C19_ProbesNeverFailATask ==
    [][\A r \in Triggers, tb \in Tablets :
          (/\ task[r][tb].pc = "prepare" /\ task'[r][tb].pc # "prepare"
           /\ Variant(r) \in {"base", "cumulative"}
           /\ KindsInProgress(tb) = {})
              => task'[r][tb].pres # "LockConflict"]_vars

\* The request supplies table_id alone, parsable, and passes the checks of
\* the ids, the kind and the remote value.
TableOnlyRequest(h) ==
    /\ h.tablet_id = "" /\ Stoull(h.table_id).ok
    /\ h.compact_type \in Kinds /\ h.remote \in RemoteValues

\* C21 as stated: a trigger that supplies table_id alone and passes the
\* parameter validation takes the table fan-out for every parsable table_id,
\* 0 included: it starts no single-tablet task and never ends NotFound.
C21_TableOnlyTakesFanout ==
    \A r \in OneTrigger :
        (Recorded(r) /\ TableOnlyRequest(http[r])) =>
            /\ req[r].path = "table"
            /\ req[r].res # "NotFound"
            /\ \A tb \in Tablets : Submitted(r, tb) => task[r][tb].pc # "bind"

\* The request is accepted on the single-tablet path with remote=true.
AcceptedRemote(h) ==
    SingleTabletRequest(h) /\ h.compact_type \in Kinds /\ h.remote = "true"
        /\ h.should_fetch_from_peer

\* Trigger r has started a peer fetch.
FetchesFromPeer(r) ==
    \E tb \in Tablets : Submitted(r, tb) /\ Variant(r) = "single_replica"

C22_FetchNeverCounted ==
    \A r \in OneTrigger, tb \in Tablets :
        (FinishStep(r, tb) /\ Variant(r) = "single_replica")
            => UNCHANGED <<base_failed, cumu_failed>>

C22_WhoFetches ==
    \A r \in OneTrigger :
        Recorded(r) =>
            /\ FetchesFromPeer(r)
                  <=> (AcceptedRemote(http[r]) /\ http[r].compact_type = "cumulative")
            /\ (AcceptedRemote(http[r]) /\ http[r].compact_type \in {"base", "full"}) =>
                  /\ Submitted(r, req[r].tablet_id)
                  /\ Variant(r) = http[r].compact_type
                  /\ InProgress(r, req[r].tablet_id) =>
                        /\ base_lock[req[r].tablet_id] = TaskOwner(r)
                        /\ full_running[req[r].tablet_id] = (http[r].compact_type = "full")

\* C22 as stated: a SingleReplicaFetch task is started exactly by a
\* single-tablet request with kind cumulative and remote=true on a tablet
\* that answers should_fetch_from_peer; an accepted remote=true request of
\* kind base or full runs the local Base or Full compaction; a
\* SingleReplicaFetch task, whatever its result, changes no failure counter.
C22_FetchExactlyWhenRemoteCumulative ==
    []C22_WhoFetches /\ [][C22_FetchNeverCounted]_vars

\* The request passes every check of the single-tablet path.
AcceptedSingle(h) ==
    /\ SingleTabletRequest(h) /\ h.compact_type \in Kinds /\ h.remote \in RemoteValues
    /\ h.remote = "true" => h.should_fetch_from_peer

C22_WhoFetchesDebugOff ==
    \A r \in OneTrigger :
        Recorded(r) =>
            /\ FetchesFromPeer(r)
                  <=> (/\ AcceptedRemote(http[r]) /\ http[r].compact_type = "cumulative"
                       /\ ~http[r].debug_point)
            /\ (/\ AcceptedRemote(http[r]) /\ http[r].compact_type \in {"base", "full"}
                /\ ~http[r].debug_point) =>
                  /\ Submitted(r, req[r].tablet_id)
                  /\ Variant(r) = http[r].compact_type
                  /\ InProgress(r, req[r].tablet_id) =>
                        /\ base_lock[req[r].tablet_id] = TaskOwner(r)
                        /\ full_running[req[r].tablet_id] = (http[r].compact_type = "full")

C22_DebugPointSubmitsCumulative ==
    \A r \in OneTrigger :
        (Recorded(r) /\ AcceptedSingle(http[r]) /\ http[r].debug_point) =>
            /\ req[r].pc = "done" /\ req[r].res \in {"OK", "SubmitFailed"}
            /\ req[r].fstatus = "-"
            /\ Variant(r) = "cumulative"
            /\ \A tb \in Tablets :
                  /\ Submitted(r, tb) => (tb = req[r].tablet_id /\ req[r].res = "OK")
                  /\ task[r][tb].pc \notin {"bind", "setpol"}
                  /\ InProgress(r, tb) =>
                        /\ cumulative_lock[tb] = TaskOwner(r)
                        /\ base_lock[tb] # TaskOwner(r)

\* C22 (amended): with the debug point of the submission off, a
\* SingleReplicaFetch task is started exactly by a single-tablet request
\* with kind cumulative and remote=true on a tablet that answers
\* should_fetch_from_peer, and an accepted remote=true request of kind base
\* or full runs the local Base or Full compaction; with the debug point
\* on, every request accepted on the single-tablet path, whatever its kind
\* and remote value, returns at once with the outcome of handing a local
\* Cumulative compaction to the engine, and no peer fetch happens; a
\* SingleReplicaFetch task, whatever its result, changes no failure counter.
C22_SingleReplicaFetch ==
    /\ [](C22_WhoFetchesDebugOff /\ C22_DebugPointSubmitsCumulative)
    /\ [][C22_FetchNeverCounted]_vars

\* A peer fetch has failed in execute and the cumulative counter is zero.
C22_Witness ==
    \E r \in OneTrigger :
        /\ AcceptedRemote(http[r]) /\ http[r].compact_type = "cumulative"
        /\ ~http[r].debug_point
        /\ Variant(r) = "single_replica"
        /\ TaskOf(r).pc = "done" /\ TaskOf(r).res = "MergeFailed"
        /\ cumu_failed = 0 /\ base_failed = 0

=============================================================================
